---- MODULE Spec2Model ----
(***************************************************************************)
(* Model of example_notebooks/scripts.py (pyphotomol): the two synthetic   *)
(* mass-photometry pipelines create_notebook_6_files (2M <=> D) and        *)
(* create_notebook_7_files (A + B <=> AB), and display_figure_static.      *)
(*                                                                         *)
(* numpy float64 arithmetic is modelled by binary floating point with      *)
(* round-to-nearest-even and a mantissa of Prec bits (unbounded exponent): *)
(* a number is <<m, e>>, of value m * 2^e, with m = 0 or                   *)
(* 2^(Prec-1) <= |m| < 2^Prec.  Every operation rounds its exact result    *)
(* once, as IEEE 754 does.                                                 *)
(***************************************************************************)
EXTENDS Integers, Sequences, FiniteSets, TLC

VARIABLES dirExists, files, run, call

vars == <<dirExists, files, run, call>>

(***************************************************************************)
(* Floating point                                                          *)
(***************************************************************************)
\* Mantissa bits of the modelled float format (float64 has 53).
Prec == 8

RECURSIVE Pow2(_)
Pow2(n) == IF n <= 0 THEN 1 ELSE 2 * Pow2(n - 1)

Abs(n) == IF n < 0 THEN -n ELSE n

Sign(n) == IF n < 0 THEN -1 ELSE IF n > 0 THEN 1 ELSE 0

RECURSIVE BitLen(_)
BitLen(n) == IF n <= 0 THEN 0 ELSE 1 + BitLen(n \div 2)

FZero == <<0, 0>>

\* The result of 0/0, x/0 and sqrt of a negative number (nan and inf are not told
\* apart: every comparison the code makes with either is False).
FNaN == <<0, 1>>

IsNaN(x) == x = FNaN

\* a == b on floats: False when either is nan.
FEq(x, y) == ~IsNaN(x) /\ ~IsNaN(y) /\ x = y

\* The float nearest to the exact value n * 2^e (ties to even).
Round(n, e) ==
    IF n = 0 THEN FZero
    ELSE LET a    == Abs(n)
             bits == BitLen(a)
         IN IF bits <= Prec
            THEN <<Sign(n) * a * Pow2(Prec - bits), e - (Prec - bits)>>
            ELSE LET sh   == bits - Prec
                     q    == a \div Pow2(sh)
                     r    == a % Pow2(sh)
                     half == Pow2(sh - 1)
                     up   == (r > half) \/ (r = half /\ q % 2 = 1)
                     q1   == IF up THEN q + 1 ELSE q
                 IN IF q1 = Pow2(Prec)
                    THEN <<Sign(n) * Pow2(Prec - 1), e + sh + 1>>
                    ELSE <<Sign(n) * q1, e + sh>>

FromInt(i) == Round(i, 0)

FNeg(x) == IF IsNaN(x) THEN FNaN ELSE <<-x[1], x[2]>>

\* x + y.  An operand more than Prec + 2 binades below the other is below
\* a quarter of the other's last place and cannot change the rounded sum.
FAdd(x, y) ==
    IF IsNaN(x) \/ IsNaN(y) THEN FNaN
    ELSE IF x[1] = 0 THEN y
    ELSE IF y[1] = 0 THEN x
    ELSE IF x[2] - y[2] > Prec + 2 THEN x
    ELSE IF y[2] - x[2] > Prec + 2 THEN y
    ELSE LET e == IF x[2] < y[2] THEN x[2] ELSE y[2]
         IN Round(x[1] * Pow2(x[2] - e) + y[1] * Pow2(y[2] - e), e)

FSub(x, y) == FAdd(x, FNeg(y))

FMul(x, y) ==
    IF IsNaN(x) \/ IsNaN(y) THEN FNaN ELSE Round(x[1] * y[1], x[2] + y[2])

\* x / y: Prec + 2 quotient bits and a sticky bit decide the rounding.
FDiv(x, y) ==
    IF IsNaN(x) \/ IsNaN(y) \/ y[1] = 0 THEN FNaN
    ELSE IF x[1] = 0 THEN FZero
    ELSE LET a == Abs(x[1]) * Pow2(Prec + 2)
             b == Abs(y[1])
             q == a \div b
             s == IF a % b = 0 THEN 0 ELSE 1
         IN Round(Sign(x[1]) * Sign(y[1]) * (2 * q + s), x[2] - y[2] - (Prec + 3))

RECURSIVE ISqrtFrom(_, _)
ISqrtFrom(n, r) == IF (r + 1) * (r + 1) > n THEN r ELSE ISqrtFrom(n, r + 1)

RECURSIVE ISqrt(_)
\* floor(sqrt(n)), by halving: isqrt(n) is 2*isqrt(n div 4) or one more.
ISqrt(n) ==
    IF n < 4 THEN ISqrtFrom(n, 0)
    ELSE LET r == 2 * ISqrt(n \div 4)
         IN IF (r + 1) * (r + 1) <= n THEN r + 1 ELSE r

\* sqrt(x), correctly rounded.
FSqrt(x) ==
    IF IsNaN(x) \/ x[1] < 0 THEN FNaN
    ELSE IF x[1] = 0 THEN FZero
    ELSE LET k == IF (x[2] - (Prec + 4)) % 2 = 0 THEN Prec + 4 ELSE Prec + 5
             n == x[1] * Pow2(k)
             r == ISqrt(n)
             s == IF r * r = n THEN 0 ELSE 1
         IN Round(2 * r + s, ((x[2] - k) \div 2) - 1)

\* x < y on floats (their exact values): False when either is nan.
FLess(x, y) ==
    LET e == IF x[2] < y[2] THEN x[2] ELSE y[2]
    IN IF IsNaN(x) \/ IsNaN(y) THEN FALSE
       ELSE IF x[1] = 0 THEN y[1] > 0
       ELSE IF y[1] = 0 THEN x[1] < 0
       ELSE IF Sign(x[1]) # Sign(y[1]) THEN x[1] < y[1]
       ELSE IF x[2] - y[2] > Prec THEN x[1] < 0
       ELSE IF y[2] - x[2] > Prec THEN y[1] > 0
       ELSE x[1] * Pow2(x[2] - e) < y[1] * Pow2(y[2] - e)

FLeq(x, y) == FEq(x, y) \/ FLess(x, y)

FAbs(x) == IF IsNaN(x) THEN FNaN ELSE <<Abs(x[1]), x[2]>>

RECURSIVE Pow10(_)
Pow10(n) == IF n <= 0 THEN 1 ELSE 10 * Pow10(n - 1)

\* The decimal literal d * 10^-p.
Dec(d, p) == FDiv(FromInt(d), FromInt(Pow10(p)))

\* The conversion factor 1e-9 from nM to M.
Nano == Dec(1, 9)

\* numpy.isclose's tolerances.  atol is numpy's 1e-8.  numpy's rtol of 1e-5 lies
\* 2^36 above float64's rounding unit and far below 1; at Prec bits the same place
\* is taken by sixteen rounding units, 2^(4 - Prec).
ATol == Dec(1, 8)

RTol == Round(1, 4 - Prec)

\* np.isclose(a, b): |a - b| <= atol + rtol * |b|, False when nan is involved.
IsClose(a, b) == FLeq(FAbs(FSub(a, b)), FAdd(ATol, FMul(RTol, FAbs(b))))

(***************************************************************************)
(* Equilibrium resolvers                                                   *)
(***************************************************************************)
\* free_monomer = (Kd / 4) * (np.sqrt(1 + (8 * total_monomer_conc / Kd)) - 1)
calculate_monomer_concentration(Kd, total_monomer_conc) ==
    FMul(FDiv(Kd, FromInt(4)),
         FSub(FSqrt(FAdd(FromInt(1), FDiv(FMul(FromInt(8), total_monomer_conc), Kd))),
              FromInt(1)))

\* dimer_conc = (total_monomer_concentration - monomer_conc) / 2
dimer_concentration(total, monomer_conc) == FDiv(FSub(total, monomer_conc), FromInt(2))

\* assert total_monomer_concentration == monomer_conc + 2 * dimer_conc
MassBalanceAssert(total, monomer_conc, dimer_conc) ==
    FEq(total, FAdd(monomer_conc, FMul(FromInt(2), dimer_conc)))

\* assert np.isclose(monomer_fraction + dimer_fraction, 1)
FractionAssert6(total, monomer_conc, dimer_conc) ==
    LET monomer_fraction == FDiv(monomer_conc, total)
        dimer_fraction   == FDiv(FMul(dimer_conc, FromInt(2)), total)
    IN IsClose(FAdd(monomer_fraction, dimer_fraction), FromInt(1))

\* AB = 0.5 * ((Kd + At + Bt) - np.sqrt((Kd + At + Bt)**2 - 4 * At * Bt))
calculate_complex_concentration(Kd, total_A_conc, total_B_conc) ==
    LET s == FAdd(FAdd(Kd, total_A_conc), total_B_conc)
    IN FMul(Dec(5, 1),
            FSub(s, FSqrt(FSub(FMul(s, s),
                               FMul(FMul(FromInt(4), total_A_conc), total_B_conc)))))

\* The three asserts of the heterocomplex generate_mass_photometry_data.
FractionAssert7(A_conc, B_conc, complex_conc) ==
    LET A_free           == FSub(A_conc, complex_conc)
        B_free           == FSub(B_conc, complex_conc)
        free_A_fraction  == FDiv(A_free, FAdd(A_free, complex_conc))
        bound_A_fraction == FDiv(complex_conc, A_conc)
        free_B_fraction  == FDiv(B_free, B_conc)
        bound_B_fraction == FDiv(complex_conc, B_conc)
    IN /\ IsClose(FAdd(A_free, complex_conc), A_conc)
       /\ IsClose(FAdd(free_A_fraction, bound_A_fraction), FromInt(1))
       /\ IsClose(FAdd(free_B_fraction, bound_B_fraction), FromInt(1))

(***************************************************************************)
(* Fraction and count allocation                                           *)
(*                                                                         *)
(* int(total_counts * c / (c1 + ... + ck)).  float64 carries the quotient  *)
(* to a relative error of 2^-51, which for a budget of a few thousand      *)
(* moves it by less than 1e-12: the truncation differs from that of the    *)
(* exact quotient only where the exact quotient is an integer, and there   *)
(* the float may fall just short of it (1800 * c / (c + c) evaluates to    *)
(* 899.9999999999999 for c = 1.5850741074053636e-09).  The quotient is     *)
(* therefore taken exactly, with both truncations possible at an integer.  *)
(***************************************************************************)
total_counts6 == 1800

total_counts7 == 3200

Min2(a, b) == IF a < b THEN a ELSE b

RECURSIVE MinExp(_)
MinExp(cs) ==
    IF Len(cs) = 1 THEN cs[1][2] ELSE Min2(cs[1][2], MinExp(Tail(cs)))

\* The concentrations cs as integers over their common unit 2^MinExp.  A zero
\* is <<0, 0>>: its exponent only lowers the unit when another operand's is lower.
Aligned(cs) ==
    LET nz == SelectSeq(cs, LAMBDA c : c[1] # 0)
        e  == IF nz = <<>> THEN 0 ELSE MinExp(nz)
    IN [j \in 1..Len(cs) |-> IF cs[j][1] = 0 THEN 0 ELSE cs[j][1] * Pow2(cs[j][2] - e)]

RECURSIVE SumSeq(_)
SumSeq(s) == IF s = <<>> THEN 0 ELSE s[1] + SumSeq(Tail(s))

\* Variant: round(n / d), to the nearest integer, in place of int(n / d).
TruncDiv_Nearest(n, d) == Sign(n) * Sign(d) * ((2 * Abs(n) + Abs(d)) \div (2 * Abs(d)))

\* int(n / d) for integers n and d # 0: truncation toward zero.
TruncDiv(n, d) == Sign(n) * Sign(d) * (Abs(n) \div Abs(d))

\* total_counts * c / sum(cs) is nan (and int() of it raises ValueError) when a
\* concentration is nan or the sum is zero.
CountIsNaN(cs) ==
    \/ \E j \in 1..Len(cs) : IsNaN(cs[j])
    \/ SumSeq(Aligned(cs)) = 0

\* The values int(total_counts * cs[i] / sum(cs)) can take, the quotient not nan.
CountChoices(total_counts, cs, i) ==
    IF CountIsNaN(cs) THEN {}
    ELSE LET a == Aligned(cs)
             d == SumSeq(a)
             n == total_counts * a[i]
             t == TruncDiv(n, d)
         IN IF n % Abs(d) = 0 /\ t # 0 THEN {t, t - Sign(t)} ELSE {t}

(***************************************************************************)
(* Noise synthesizer, detection filter, shuffle                            *)
(***************************************************************************)
\* Values a draw can return (kDa): below, at and above the detection limits used.
SampleValues == {39, 40, 41}

ValueError == "ValueError"

AssertionError == "AssertionError"

\* np.random.normal(mean, std, n): any n values, whatever mean and std > 0 are;
\* numpy raises ValueError ("negative dimensions are not allowed") for n < 0.
simulate_mass_photometry_counts(n) ==
    IF n < 0 THEN {[raised |-> TRUE, values |-> <<>>]}
    ELSE {[raised |-> FALSE, values |-> v] : v \in [1..n -> SampleValues]}

\* Variant: counts[counts > detection_limit]
DetectionFilter_Strict(counts, detection_limit) ==
    SelectSeq(counts, LAMBDA v : v > detection_limit)

\* counts[counts >= detection_limit]
DetectionFilter(counts, detection_limit) ==
    SelectSeq(counts, LAMBDA v : v >= detection_limit)

Occurrences(s, v) == Cardinality({k \in 1..Len(s) : s[k] = v})

\* np.random.shuffle(masses): every rearrangement of masses.
Shuffles(masses) ==
    {s \in [1..Len(masses) -> {masses[k] : k \in 1..Len(masses)}] :
        \A v \in {masses[k] : k \in 1..Len(masses)} :
            Occurrences(s, v) = Occurrences(masses, v)}

(***************************************************************************)
(* generate_mass_photometry_data                                           *)
(***************************************************************************)
\* Homodimer pipeline, lines 104-128: the resolved state, the two asserts and
\* the sample sizes handed to the synthesizer.  counts is one of the pairs the
\* allocation can produce.
Resolved6(Kd, total) ==
    LET monomer_conc == calculate_monomer_concentration(Kd, total)
        dimer_conc   == dimer_concentration(total, monomer_conc)
    IN [monomer_conc |-> monomer_conc,
        dimer_conc   |-> dimer_conc,
        balance      |-> MassBalanceAssert(total, monomer_conc, dimer_conc),
        fractions    |-> FractionAssert6(total, monomer_conc, dimer_conc)]

\* <<>> stands for the sample sizes when a quotient is nan.
Counts6(r) ==
    LET cs == <<r.monomer_conc, r.dimer_conc>>
    IN IF CountIsNaN(cs) THEN {<<>>}
       ELSE CountChoices(total_counts6, cs, 1) \X CountChoices(total_counts6, cs, 2)

\* How the call ends: an assert fails, the synthesizer raises, or it returns.
Outcome6(r, counts) ==
    IF ~(r.balance /\ r.fractions) THEN AssertionError
    ELSE IF counts = <<>> \/ \E k \in 1..2 : counts[k] < 0 THEN ValueError
    ELSE "ok"

\* Heterocomplex pipeline, lines 251-285.
Resolved7(Kd, A_conc, B_conc) ==
    LET complex_conc == calculate_complex_concentration(Kd, A_conc, B_conc)
    IN [complex_conc |-> complex_conc,
        A_free       |-> FSub(A_conc, complex_conc),
        B_free       |-> FSub(B_conc, complex_conc),
        asserts      |-> FractionAssert7(A_conc, B_conc, complex_conc)]

\* A_counts, AB_counts, B_counts, each over A_free + complex_conc + B_free.
Counts7(r) ==
    LET cs == <<r.A_free, r.complex_conc, r.B_free>>
    IN IF CountIsNaN(cs) THEN {<<>>}
       ELSE CountChoices(total_counts7, cs, 1) \X CountChoices(total_counts7, cs, 2)
                \X CountChoices(total_counts7, cs, 3)

Outcome7(r, counts) ==
    IF ~r.asserts THEN AssertionError
    ELSE IF counts = <<>> \/ \E k \in 1..3 : counts[k] < 0 THEN ValueError
    ELSE "ok"


(***************************************************************************)
(* display_figure_static                                                   *)
(***************************************************************************)
Failures == {"none", "ImportError", "Exception"}

\* What the try block does: the events emitted before it ends and the exception
\* that ends it ("none" when it runs to its end).
DisplayTry(importFails, showFails, imageFails, show_interactive) ==
    IF importFails THEN [events |-> <<>>, raised |-> "ImportError"]
    ELSE IF show_interactive /\ showFails # "none"
         THEN [events |-> <<>>, raised |-> showFails]
    ELSE LET shown == IF show_interactive THEN <<"interactive">> ELSE <<>>
         IN IF imageFails # "none"
            THEN [events |-> shown, raised |-> imageFails]
            ELSE [events |-> Append(shown, "static"), raised |-> "none"]

\* Both except clauses print a message and call fig.show() again, outside any try.
DisplayHandler(t, showFails) ==
    IF t.raised = "none" THEN t
    ELSE IF showFails # "none"
         THEN [events |-> Append(t.events, "message"), raised |-> showFails]
    ELSE [events |-> t.events \o <<"message", "interactive">>, raised |-> "none"]

display_figure_static(importFails, showFails, imageFails, show_interactive) ==
    DisplayHandler(DisplayTry(importFails, showFails, imageFails, show_interactive),
                   showFails)

(***************************************************************************)
(* The computations on their own: the arguments are drawn by InitCore and  *)
(* one action per function applies it.                                     *)
(***************************************************************************)
\* Exponents of the concentrations range this far around Kd's.
ExpSpan == 12

\* Sample sizes below zero reach down to -MaxNeg; a call draws at most MaxDraw values.
MaxNeg == 1

MaxDraw == 3

Mantissas == Pow2(Prec - 1)..(Pow2(Prec) - 1)

\* A few mantissas across the binade: its ends, and the quarter points.
SomeMantissas ==
    {Pow2(Prec - 1), Pow2(Prec - 1) + 1, Pow2(Prec - 1) + Pow2(Prec - 3),
     Pow2(Prec - 1) + Pow2(Prec - 2), Pow2(Prec) - 1}

\* Kdim's default 8.35e-9.
KdDefault == FMul(Dec(835, 2), Nano)

KdArgs == {KdDefault, <<Pow2(Prec - 1), KdDefault[2]>>, <<Pow2(Prec) - 1, KdDefault[2]>>}

PositiveFloats(ms) ==
    {<<m, e>> : m \in ms, e \in (KdDefault[2] - ExpSpan)..(KdDefault[2] + ExpSpan)}

Resolve6Args ==
    {[op |-> "resolve6", phase |-> "args", Kd |-> k, total |-> c] :
        k \in KdArgs, c \in PositiveFloats(Mantissas)}

Resolve7Args ==
    {[op |-> "resolve7", phase |-> "args", Kd |-> k, A_conc |-> a, B_conc |-> b] :
        k \in KdArgs,
        a \in {<<m, e>> : m \in SomeMantissas,
                          e \in {KdDefault[2], KdDefault[2] + ExpSpan}},
        b \in PositiveFloats(SomeMantissas)}

\* Non-negative species concentrations within a few binades of each other.
SpeciesConcs ==
    {FZero} \cup {<<m, e>> : m \in {Pow2(Prec - 1), Pow2(Prec - 1) + Pow2(Prec - 2),
                                    Pow2(Prec) - 1}, e \in 0..2}

Allocate6Args ==
    {[op |-> "allocate6", phase |-> "args", concs |-> <<m, d>>] :
        m \in SpeciesConcs, d \in SpeciesConcs} \
    {[op |-> "allocate6", phase |-> "args", concs |-> <<FZero, FZero>>]}

Allocate7Args ==
    {[op |-> "allocate7", phase |-> "args", concs |-> <<a, ab, b>>] :
        a \in SpeciesConcs, ab \in SpeciesConcs, b \in {FZero, <<Pow2(Prec - 1), 0>>,
                                                        <<Pow2(Prec) - 1, 1>>}} \
    {[op |-> "allocate7", phase |-> "args", concs |-> <<FZero, FZero, FZero>>]}

SampleSizes == (0 - MaxNeg)..MaxDraw

Pos(n) == IF n < 0 THEN 0 ELSE n

\* The calls draw at most MaxDraw values in all.
Sample6Args ==
    {[op |-> "sample6", phase |-> "args", n |-> t] :
        t \in {u \in SampleSizes \X SampleSizes : Pos(u[1]) + Pos(u[2]) <= MaxDraw}}

DetectionLimits == {40, 41}

Sample7Args ==
    {[op |-> "sample7", phase |-> "args", n |-> t, detection_limit |-> l] :
        t \in {u \in SampleSizes \X SampleSizes \X SampleSizes :
                 Pos(u[1]) + Pos(u[2]) + Pos(u[3]) <= MaxDraw},
        l \in DetectionLimits}

DisplayArgs ==
    {[op |-> "display", phase |-> "args", importFails |-> i, showFails |-> s,
      imageFails |-> g, show_interactive |-> v] :
        i \in BOOLEAN, s \in Failures, g \in Failures, v \in BOOLEAN}

NoFiles == [n \in {} |-> 0]

Idle == [pipeline |-> 0, phase |-> "idle"]

InitCore ==
    /\ dirExists = FALSE
    /\ files = NoFiles
    /\ run = Idle
    /\ call \in Resolve6Args \cup Resolve7Args \cup Allocate6Args \cup Allocate7Args
                  \cup Sample6Args \cup Sample7Args \cup DisplayArgs

Returns(fields) ==
    /\ call' = fields
    /\ UNCHANGED <<dirExists, files, run>>

\* Lines 106-114 of the homodimer generate_mass_photometry_data.
Resolve6Call ==
    /\ call.op = "resolve6" /\ call.phase = "args"
    /\ Returns([op |-> "resolve6", phase |-> "done", Kd |-> call.Kd,
                total |-> call.total, resolved |-> Resolved6(call.Kd, call.total)])

\* Lines 251-268 of the heterocomplex generate_mass_photometry_data.
Resolve7Call ==
    /\ call.op = "resolve7" /\ call.phase = "args"
    /\ Returns([op |-> "resolve7", phase |-> "done", Kd |-> call.Kd,
                A_conc |-> call.A_conc, B_conc |-> call.B_conc,
                resolved |-> Resolved7(call.Kd, call.A_conc, call.B_conc)])

Allocate6Call ==
    /\ call.op = "allocate6" /\ call.phase = "args"
    /\ \E m \in CountChoices(total_counts6, call.concs, 1),
          d \in CountChoices(total_counts6, call.concs, 2) :
            Returns([op |-> "allocate6", phase |-> "done", concs |-> call.concs,
                     counts |-> <<m, d>>])

\* The sizes of the three draws, and how many values of each pass the filter:
\* none, half or all of them.
Allocate7Call ==
    /\ call.op = "allocate7" /\ call.phase = "args"
    /\ \E a  \in CountChoices(total_counts7, call.concs, 1),
          ab \in CountChoices(total_counts7, call.concs, 2),
          b  \in CountChoices(total_counts7, call.concs, 3) :
         \E ka \in {0, a \div 2, a}, kab \in {0, ab \div 2, ab}, kb \in {0, b \div 2, b} :
            Returns([op |-> "allocate7", phase |-> "done", concs |-> call.concs,
                     counts |-> <<a, ab, b>>, pooled |-> ka + kab + kb])

\* Lines 127-139: two draws, concatenated and shuffled.
Sample6Call ==
    /\ call.op = "sample6" /\ call.phase = "args"
    /\ \E m \in simulate_mass_photometry_counts(call.n[1]) :
         IF m.raised
         THEN Returns([op |-> "sample6", phase |-> "done", n |-> call.n,
                       draws |-> <<m>>, raised |-> TRUE, masses |-> <<>>])
         ELSE \E d \in simulate_mass_photometry_counts(call.n[2]) :
                IF d.raised
                THEN Returns([op |-> "sample6", phase |-> "done", n |-> call.n,
                              draws |-> <<m, d>>, raised |-> TRUE, masses |-> <<>>])
                ELSE \E s \in Shuffles(m.values \o d.values) :
                       Returns([op |-> "sample6", phase |-> "done", n |-> call.n,
                                draws |-> <<m, d>>, raised |-> FALSE, masses |-> s])

\* Lines 283-296: three draws, each filtered, concatenated as [A, B, AB], shuffled.
Sample7Call ==
    /\ call.op = "sample7" /\ call.phase = "args"
    /\ LET done(draws, raised, filtered, masses) ==
               Returns([op |-> "sample7", phase |-> "done", n |-> call.n,
                        detection_limit |-> call.detection_limit, draws |-> draws,
                        raised |-> raised, filtered |-> filtered, masses |-> masses])
           kept(x) == DetectionFilter(x.values, call.detection_limit)
       IN \E a \in simulate_mass_photometry_counts(call.n[1]) :
            IF a.raised THEN done(<<a>>, TRUE, <<>>, <<>>)
            ELSE \E ab \in simulate_mass_photometry_counts(call.n[2]) :
                   IF ab.raised THEN done(<<a, ab>>, TRUE, <<>>, <<>>)
                   ELSE \E b \in simulate_mass_photometry_counts(call.n[3]) :
                          IF b.raised THEN done(<<a, ab, b>>, TRUE, <<>>, <<>>)
                          ELSE \E s \in Shuffles(kept(a) \o kept(b) \o kept(ab)) :
                                 done(<<a, ab, b>>, FALSE,
                                      <<kept(a), kept(ab), kept(b)>>, s)

DisplayCall ==
    /\ call.op = "display" /\ call.phase = "args"
    /\ Returns([op |-> "display", phase |-> "done", importFails |-> call.importFails,
                showFails |-> call.showFails, imageFails |-> call.imageFails,
                show_interactive |-> call.show_interactive,
                result |-> display_figure_static(call.importFails, call.showFails,
                                                 call.imageFails, call.show_interactive)])

NextCore ==
    \/ Resolve6Call
    \/ Resolve7Call
    \/ Allocate6Call
    \/ Allocate7Call
    \/ Sample6Call
    \/ Sample7Call
    \/ DisplayCall

SpecCore == InitCore /\ [][NextCore]_vars

(***************************************************************************)
(* The two pipelines and the directory 'test_files'                        *)
(*                                                                         *)
(* files maps the names in 'test_files' to their contents.  A file written *)
(* by a run holds the sample set of one condition, known by the pipeline   *)
(* and the condition's index; a file from before holds pipeline 0.         *)
(***************************************************************************)
\* Conditions per run.
MaxConds == 2

startswith(name, prefix) ==
    Len(name) >= Len(prefix) /\ SubSeq(name, 1, Len(prefix)) = prefix

endswith(name, suffix) ==
    Len(name) >= Len(suffix)
        /\ SubSeq(name, Len(name) - Len(suffix) + 1, Len(name)) = suffix

\* file.startswith('masses_monomer_') and file.endswith('.csv')
Matches6(file) == startswith(file, "masses_monomer_") /\ endswith(file, ".csv")

\* file.startswith('masses_A_B') and file.endswith('.csv')
Matches7(file) == startswith(file, "masses_A_B") /\ endswith(file, ".csv")

Matches(pipeline, file) == IF pipeline = 6 THEN Matches6(file) ELSE Matches7(file)

\* f"{conc_nM}nM", conc_nM an element of np.array(concentrations_nM).
Label6(conc_nM) == ToString(conc_nM) \o "nM"

Digits3(r) ==
    IF r < 10 THEN "00" \o ToString(r)
    ELSE IF r < 100 THEN "0" \o ToString(r) ELSE ToString(r)

\* f"B_{B_conc_nM:.3f}nM" for B_conc_nM = k * 1e-4 >= 0: three decimals, the
\* nearest (k does not end in 5 here: float64 has no tie at such a value).
Label7(k) ==
    LET q == (k + 5) \div 10
    IN "B_" \o ToString(q \div 1000) \o "." \o Digits3(q % 1000) \o "nM"

\* f'{test_files}/masses_monomer_{conc_label}.csv', within test_files.
Path6(conc_label) == "masses_monomer_" \o conc_label \o ".csv"

\* f'{test_files}/masses_A_{conc_label}.csv', within test_files.
Path7(conc_label) == "masses_A_" \o conc_label \o ".csv"

Path(pipeline, conc_label) ==
    IF pipeline = 6 THEN Path6(conc_label) ELSE Path7(conc_label)

\* Variant: the to_csv loop ahead of the os.remove loop.
Program6_WriteThenRemove == <<"generate", "makedirs", "write", "remove">>

\* The statements of each function body after its setup, in order:
\* the loop over the conditions, os.makedirs, the os.remove loop, the to_csv loop.
Program6 == <<"generate", "makedirs", "remove", "write">>

\* Variant: the directory prepared and cleaned ahead of the loop over the conditions.
Program7_CleanFirst == <<"makedirs", "remove", "generate", "write">>

Program7 == <<"generate", "makedirs", "remove", "write">>

Program(pipeline) == IF pipeline = 6 THEN Program6 ELSE Program7

\* concentrations_nM, in nM: in range, the one that trips the balance assert
\* for some perturbation, zero and a negative one.
Nominal6 == {4, 24, 0 - 1}

\* B_concentrations_nM, in units of 1e-4 nM: 0.125 and 0.1254 share a label.
NominalB == {1250, 1254, 0}

\* 1 + np.random.uniform(-r, r) for r = 0.03, 0.02: the model draws 1 itself
\* or the float nearest the low end of the range.
ErrorFactors6 == {FromInt(1), FSub(FromInt(1), Dec(3, 2))}

ErrorFactors7 == {FromInt(1), FSub(FromInt(1), Dec(2, 2))}

Lists(S) == UNION {[1..n -> S] : n \in 0..MaxConds}

\* np.array(concentrations_nM) * 1e-9 * error_factor, by nominal value and factor.
Perturbed6 ==
    <<>> @@ [p \in Nominal6 \X ErrorFactors6 |-> FMul(FMul(FromInt(p[1]), Nano), p[2])]

\* B_concentrations_nM.copy() * 1e-9 * error_factor
Perturbed7 ==
    <<>> @@ [p \in NominalB \X ErrorFactors7 |-> FMul(FMul(Dec(p[1], 4), Nano), p[2])]

OldFile == [pipeline |-> 0, cond |-> 0]

\* Files found in test_files before the first run: an output of each pipeline
\* left by an earlier version, and a file neither pattern matches.
OldNames == {"masses_monomer_8nM.csv", "masses_A_B_old.csv"}

OtherName == "masses_A_4.csv"

Init ==
    /\ \/ dirExists = FALSE /\ files = NoFiles
       \/ /\ dirExists = TRUE
          /\ \E S \in SUBSET OldNames : files = [n \in S \cup {OtherName} |-> OldFile]
    /\ run = [pipeline |-> 0, phase |-> "idle",
              last |-> [p \in {6, 7} |-> [ran |-> FALSE, labels |-> <<>>]]]
    /\ call = [op |-> "none", phase |-> "done"]

Running == run.phase = "running"

\* Lines 67-74: the nominal array, its conversion to M and the perturbation.
Start6 ==
    /\ ~Running
    /\ \E base \in Lists(Nominal6) :
         \E error_factor \in [1..Len(base) -> ErrorFactors6] :
            run' = [pipeline |-> 6, phase |-> "running", pc |-> 1, last |-> run.last,
                    before |-> [files |-> files, dirExists |-> dirExists],
                    Kd |-> KdDefault, base |-> base,
                    conc |-> [i \in 1..Len(base) |->
                                 Perturbed6[<<base[i], error_factor[i]>>]],
                    labels |-> <<>>, masses |-> <<>>]
    /\ UNCHANGED <<dirExists, files, call>>

\* Kd's default 1e-9 and A_concentration_molar's 5e-9.
Kd7Default == Nano

ADefault == Dec(5, 9)

\* A_concentration_molar * error_factor_A
PerturbedA == <<>> @@ [f \in ErrorFactors7 |-> FMul(ADefault, f)]

\* Lines 225-235.
Start7 ==
    /\ ~Running
    /\ \E base \in Lists(NominalB), error_factor_A \in ErrorFactors7 :
         \E error_factor \in [1..Len(base) -> ErrorFactors7] :
            run' = [pipeline |-> 7, phase |-> "running", pc |-> 1, last |-> run.last,
                    before |-> [files |-> files, dirExists |-> dirExists],
                    Kd |-> Kd7Default, A |-> PerturbedA[error_factor_A], base |-> base,
                    conc |-> [i \in 1..Len(base) |->
                                 Perturbed7[<<base[i], error_factor[i]>>]],
                    labels |-> <<>>, masses |-> <<>>]
    /\ UNCHANGED <<dirExists, files, call>>

At(pipeline, statement) ==
    /\ Running /\ run.pipeline = pipeline
    /\ Program(pipeline)[run.pc] = statement

\* The exception leaves the function: its locals are gone.  (before is no
\* local: it records the directory as the call found it.)
Raise(error) ==
    run' = [pipeline |-> run.pipeline, phase |-> "aborted", error |-> error,
            last |-> run.last, before |-> run.before]

\* The statement is done: on to the next, or return None after the last.
Advance(r) ==
    IF r.pc < Len(Program(r.pipeline))
    THEN run' = [r EXCEPT !.pc = r.pc + 1]
    ELSE run' = [pipeline |-> r.pipeline, phase |-> "done",
                 last |-> [r.last EXCEPT ![r.pipeline] =
                              [ran |-> TRUE, labels |-> r.labels]]]

\* How generate_mass_photometry_data can end for one condition.
Outcomes6(Kd, total) ==
    LET r == Resolved6(Kd, total) IN {Outcome6(r, counts) : counts \in Counts6(r)}

Outcomes7(Kd, A_conc, B_conc) ==
    LET r == Resolved7(Kd, A_conc, B_conc)
    IN {Outcome7(r, counts) : counts \in Counts7(r)}

\* The same, tabulated for the concentrations the runs are started with
\* (f @@ g is a tabulated function: TLC computes it once).
RunOutcomes6 ==
    <<>> @@ [x \in {Perturbed6[p] : p \in Nominal6 \X ErrorFactors6} |->
        Outcomes6(KdDefault, x)]

RunOutcomes7 ==
    <<>> @@ [q \in {PerturbedA[f] : f \in ErrorFactors7}
              \X {Perturbed7[p] : p \in NominalB \X ErrorFactors7} |->
        Outcomes7(Kd7Default, q[1], q[2])]

\* The least index whose outcome is not "ok", 0 when there is none.
FirstFailure(outcomes) ==
    IF \A i \in 1..Len(outcomes) : outcomes[i] = "ok" THEN 0
    ELSE CHOOSE i \in 1..Len(outcomes) :
            outcomes[i] # "ok" /\ \A j \in 1..(i - 1) : outcomes[j] = "ok"

\* Variant: the label made from total_monomer_concentration[i], the perturbed value.
label_concentration6_perturbed(base, conc, i) == conc[i]

\* The value the label of condition i is made from: total_monomer_concentration_base[i].
label_concentration6(base, conc, i) == base[i]

\* B_concentrations_nM[i]
label_concentration7(base, conc, i) == base[i]

\* The sample set of condition i: what it was computed from, and which it is.
SampleSet(pipeline, conc, i) == [pipeline |-> pipeline, cond |-> i, conc |-> conc[i]]

\* Lines 141-152: the loop over the conditions.
Generate6 ==
    /\ At(6, "generate")
    /\ \E outcomes \in [1..Len(run.conc) -> {"ok", AssertionError, ValueError}] :
         /\ \A i \in 1..Len(run.conc) : outcomes[i] \in RunOutcomes6[run.conc[i]]
         /\ IF FirstFailure(outcomes) # 0
            THEN Raise(outcomes[FirstFailure(outcomes)])
            ELSE Advance([run EXCEPT
                    !.masses = [i \in 1..Len(run.conc) |-> SampleSet(6, run.conc, i)],
                    !.labels = [i \in 1..Len(run.conc) |->
                                  Label6(label_concentration6(run.base, run.conc, i))]])
    /\ UNCHANGED <<dirExists, files, call>>

\* Lines 298-308.
Generate7 ==
    /\ At(7, "generate")
    /\ \E outcomes \in [1..Len(run.conc) -> {"ok", AssertionError, ValueError}] :
         /\ \A i \in 1..Len(run.conc) :
               outcomes[i] \in RunOutcomes7[<<run.A, run.conc[i]>>]
         /\ IF FirstFailure(outcomes) # 0
            THEN Raise(outcomes[FirstFailure(outcomes)])
            ELSE Advance([run EXCEPT
                    !.masses = [i \in 1..Len(run.conc) |-> SampleSet(7, run.conc, i)],
                    !.labels = [i \in 1..Len(run.conc) |->
                                  Label7(label_concentration7(run.base, run.conc, i))]])
    /\ UNCHANGED <<dirExists, files, call>>

\* if not os.path.exists(test_files): os.makedirs(test_files)
Makedirs(pipeline) ==
    /\ At(pipeline, "makedirs")
    /\ dirExists' = TRUE
    /\ Advance(run)
    /\ UNCHANGED <<files, call>>

Makedirs6 == Makedirs(6)

Makedirs7 == Makedirs(7)

Restrict(f, S) == [n \in S |-> f[n]]

\* The loop over os.listdir(test_files), which raises when there is no directory.
Remove(pipeline) ==
    /\ At(pipeline, "remove")
    /\ IF dirExists
       THEN /\ files' = Restrict(files, {n \in DOMAIN files : ~Matches(pipeline, n)})
            /\ Advance(run)
       ELSE /\ Raise("FileNotFoundError")
            /\ UNCHANGED files
    /\ UNCHANGED <<dirExists, call>>

Remove6 == Remove(6)

Remove7 == Remove(7)

RECURSIVE WriteAll(_, _, _, _)
\* df.to_csv for conditions i..Len(labels) in turn: a later one replaces an
\* earlier one of the same path.
WriteAll(f, paths, masses, i) ==
    IF i > Len(paths) THEN f
    ELSE WriteAll([n \in DOMAIN f \cup {paths[i]} |->
                      IF n = paths[i]
                      THEN [pipeline |-> masses[i].pipeline, cond |-> masses[i].cond]
                      ELSE f[n]],
                  paths, masses, i + 1)

\* The loop over zip(masses_per_concentration, concentration_labels); to_csv
\* raises when there is no directory and there is something to write.
Write(pipeline) ==
    /\ At(pipeline, "write")
    /\ IF dirExists \/ run.labels = <<>>
       THEN /\ files' = WriteAll(files, [i \in 1..Len(run.labels) |-> Path(pipeline, run.labels[i])],
                                 run.masses, 1)
            /\ Advance(run)
       ELSE /\ Raise("OSError")
            /\ UNCHANGED files
    /\ UNCHANGED <<dirExists, call>>

Write6 == Write(6)

Write7 == Write(7)

Next ==
    \/ Start6
    \/ Start7
    \/ Generate6
    \/ Generate7
    \/ Makedirs6
    \/ Makedirs7
    \/ Remove6
    \/ Remove7
    \/ Write6
    \/ Write7

Spec == Init /\ [][Next]_vars

(***************************************************************************)
(* Properties of the pipelines (specification Spec)                        *)
(***************************************************************************)
MatchingFiles(pipeline) == {n \in DOMAIN files : Matches(pipeline, n)}

OutputPaths(pipeline, labels) ==
    {Path(pipeline, labels[i]) : i \in 1..Len(labels)}

\* The pipeline is not in the middle of a run and has returned normally before.
Settled(pipeline) ==
    /\ run.last[pipeline].ran
    /\ ~(Running /\ run.pipeline = pipeline)

\* C1: full-replace output.  In each pipeline no file matching its pattern is
\* left in test_files when the first new file is about to be written, and once
\* the pipeline has run successfully the files matching its pattern are exactly
\* those named for the conditions of its most recent successful run.
C1_FullReplace ==
    \A p \in {6, 7} :
        /\ At(p, "write") => MatchingFiles(p) = {}
        /\ Settled(p) => MatchingFiles(p) = OutputPaths(p, run.last[p].labels)

\* A run found a file of its own pattern in test_files, has deleted it and is
\* about to write the files of its conditions.
C1_Witness ==
    /\ At(6, "write")
    /\ run.labels # <<>>
    /\ \E n \in DOMAIN run.before.files : Matches6(n)
    /\ MatchingFiles(6) = {}

\* C2: one file per condition.  A run that returned normally leaves as many
\* files of its pattern as its list has conditions, and every condition's sample
\* set is held by one of them.
C2_OneFilePerCondition ==
    \A p \in {6, 7} :
        (run.phase = "done" /\ run.pipeline = p) =>
            /\ Cardinality(MatchingFiles(p)) = Len(run.last[p].labels)
            /\ \A i \in 1..Len(run.last[p].labels) :
                  \E n \in MatchingFiles(p) : files[n] = [pipeline |-> p, cond |-> i]

NominalLabel(pipeline, nominal) ==
    IF pipeline = 6 THEN Label6(nominal) ELSE Label7(nominal)

\* C3: label/physics separation.  Whatever the perturbation factors were, the
\* label of condition i is the one its nominal concentration gives, the sample
\* set at index i is the one computed for condition i from its perturbed
\* concentration, and a file written by the run holds the sample set of a
\* condition whose label names it.
C3_LabelPhysicsSeparation ==
    /\ Running =>
          /\ Len(run.labels) \in {0, Len(run.base)}
          /\ Len(run.masses) = Len(run.labels)
          /\ \A i \in 1..Len(run.labels) :
                /\ run.labels[i] = NominalLabel(run.pipeline, run.base[i])
                /\ run.masses[i] = [pipeline |-> run.pipeline, cond |-> i,
                                    conc |-> run.conc[i]]
    /\ \A p \in {6, 7} :
          Settled(p) =>
              \A n \in DOMAIN files :
                  files[n].pipeline = p =>
                      /\ files[n].cond \in 1..Len(run.last[p].labels)
                      /\ n \in OutputPaths(p, <<run.last[p].labels[files[n].cond]>>)

\* The loop has labelled a condition of nominal 4 nM whose perturbed
\* concentration is not the nominal one.
C3_Witness ==
    /\ Running /\ run.pipeline = 6
    /\ \E i \in 1..Len(run.labels) :
          /\ run.base[i] = 4
          /\ run.labels[i] = "4nM"
          /\ run.conc[i] # Perturbed6[<<4, FromInt(1)>>]
          /\ run.masses[i].conc = run.conc[i]

FilesAsFound ==
    /\ files = run.before.files
    /\ dirExists = run.before.dirExists

\* C10: abort before any file-system effect.  Until the loop over the conditions
\* is through, test_files is as the run found it, and so it is after a run that
\* ended in a failed assert or an exception of the synthesizer.
C10_AbortLeavesDirectory ==
    /\ \A p \in {6, 7} : At(p, "generate") => FilesAsFound
    /\ (run.phase = "aborted" /\ run.error \in {AssertionError, ValueError}) =>
          FilesAsFound

\* A run of a pipeline that had written files before has aborted on a failed assert.
C10_Witness ==
    /\ run.phase = "aborted"
    /\ run.error = AssertionError
    /\ run.last[run.pipeline].ran
    /\ \E n \in DOMAIN files : files[n].pipeline = run.pipeline
    /\ FilesAsFound

(***************************************************************************)
(* Properties of the computations (specification SpecCore)                 *)
(***************************************************************************)
Returned(op) == call.op = op /\ call.phase = "done"

RECURSIVE IsSubsequence(_, _)
\* s is t with some elements left out.
IsSubsequence(s, t) ==
    IF s = <<>> THEN TRUE
    ELSE IF t = <<>> THEN FALSE
    ELSE IF s[1] = t[1] THEN IsSubsequence(Tail(s), Tail(t))
    ELSE IsSubsequence(s, Tail(t))

\* C4: detection filter.  Each of the three filtered sequences is its draw with
\* exactly the values below detection_limit left out, in the draw's order, and
\* the pooled, shuffled output is made of the filtered values: none of its
\* values is below detection_limit.
C4_DetectionFilter ==
    (Returned("sample7") /\ ~call.raised) =>
        /\ \A k \in 1..3 :
              /\ IsSubsequence(call.filtered[k], call.draws[k].values)
              /\ \A v \in SampleValues :
                    Occurrences(call.filtered[k], v) =
                        IF v >= call.detection_limit
                        THEN Occurrences(call.draws[k].values, v) ELSE 0
        /\ \A j \in 1..Len(call.masses) : call.masses[j] >= call.detection_limit
        /\ \A v \in SampleValues :
              Occurrences(call.masses, v) =
                  Occurrences(call.filtered[1], v) + Occurrences(call.filtered[2], v)
                    + Occurrences(call.filtered[3], v)

\* A draw lost a value to the filter and kept one equal to detection_limit.
C4_Witness ==
    /\ Returned("sample7") /\ ~call.raised
    /\ \E k \in 1..3 :
          /\ Len(call.filtered[k]) < Len(call.draws[k].values)
          /\ \E j \in 1..Len(call.filtered[k]) :
                call.filtered[k][j] = call.detection_limit
    /\ call.masses # <<>>

\* C5: empty-count recovery.  Whatever the sample sizes, no call of the
\* synthesizer raises: a size of zero or below gives the empty sequence, a size
\* N > 0 gives N values.
C5_EmptyCountRecovery ==
    (Returned("sample6") \/ Returned("sample7")) =>
        /\ ~call.raised
        /\ Len(call.draws) = Len(call.n)
        /\ \A k \in 1..Len(call.n) :
              /\ ~call.draws[k].raised
              /\ Len(call.draws[k].values) = Pos(call.n[k])

\* C6: display failures never reach the caller.  Whatever fails,
\* display_figure_static returns normally, and when only fig.show() fails the
\* static image is still emitted.
C6_DisplayNeverRaises ==
    Returned("display") =>
        /\ call.result.raised = "none"
        /\ (~call.importFails /\ call.imageFails = "none" /\ call.showFails # "none") =>
              \E k \in 1..Len(call.result.events) : call.result.events[k] = "static"

Budget == IF call.op = "allocate6" THEN total_counts6 ELSE total_counts7

\* C7: count allocation bound.  For non-negative concentrations not all zero
\* the counts sum to at most the budget and fall short of it by at most the
\* number of species; the pooled heterocomplex output has at most 3200 values.
C7_CountAllocationBound ==
    (Returned("allocate6") \/ Returned("allocate7")) =>
        /\ SumSeq(call.counts) <= Budget
        /\ Budget - SumSeq(call.counts) <= Len(call.counts)
        /\ \A k \in 1..Len(call.counts) : call.counts[k] >= 0
        /\ call.op = "allocate7" => call.pooled <= total_counts7

\* Three species all present, the truncations losing part of the budget, and
\* every drawn value passing the filter.
C7_Witness ==
    /\ Returned("allocate7")
    /\ \A k \in 1..3 : call.counts[k] > 0
    /\ SumSeq(call.counts) < total_counts7
    /\ call.pooled = SumSeq(call.counts)

\* The relative tolerance of the balance, 1e-9 for float64: four rounding units.
BalanceTol == Round(1, 2 - Prec)

\* C8: homodimer resolver.  For Kd > 0 and Ct > 0 the resolved state has
\* 0 < M <= Ct, D >= 0 and |Ct - (M + 2D)| <= tolerance * Ct, and the
\* mass-balance check accepts it.
C8_HomodimerResolver ==
    Returned("resolve6") =>
        LET M  == call.resolved.monomer_conc
            D  == call.resolved.dimer_conc
            Ct == call.total
        IN /\ FLess(FZero, M)
           /\ FLeq(M, Ct)
           /\ FLeq(FZero, D)
           /\ FLeq(FAbs(FSub(Ct, FAdd(M, FMul(FromInt(2), D)))), FMul(BalanceTol, Ct))
           /\ call.resolved.balance

\* C9: heterocomplex resolver.  For Kd > 0, At > 0 and Bt > 0 the complex
\* concentration has 0 <= AB <= min(At, Bt), the free concentrations are not
\* negative, and the fraction sums pass their checks.
C9_HeterocomplexResolver ==
    Returned("resolve7") =>
        LET AB == call.resolved.complex_conc
        IN /\ FLeq(FZero, AB)
           /\ FLeq(AB, call.A_conc)
           /\ FLeq(AB, call.B_conc)
           /\ FLeq(FZero, call.resolved.A_free)
           /\ FLeq(FZero, call.resolved.B_free)
           /\ call.resolved.asserts
====
